---- MODULE Spec2Model ----
(***************************************************************************)
(* QuickC (src/src/extension.ts): a VS Code extension that debounces       *)
(* editor events, compiles and runs the document (or the selection) with   *)
(* gcc through child_process.exec, and shows the output as an inline       *)
(* decoration.                                                             *)
(*                                                                         *)
(* Text is modelled as a sequence of tokens.  "sp" and "nl" are the        *)
(* whitespace tokens (blank, line feed); every other token stands for a    *)
(* run of non-blank characters.                                            *)
(***************************************************************************)
EXTENDS Integers, Sequences, FiniteSets, TLC

\* Number of events the host delivers in one behaviour: editor events, the
\* block command, and the deactivation.
MaxEvents == 2

\* Longest stdout, in tokens, of the runs SpecOutput starts from.
MaxStdout == 4

Editors == {"A", "B"}

\* defaultConfig.inlineColor
DefaultInlineColor == "grey"

\* What getConfiguration('quickc').get('inlineColor') can return ("" = not
\* set); the setting is read anew at every call of displayInlineOutput.
ColorSettings == {"", "blue"}

\* The values ((endTime - startTime) / 1000).toFixed(2) takes in the model.
ExecTimes == {"0.01", "0.25"}

(***************************************************************************)
(* Strings                                                                 *)
(***************************************************************************)
IsSpace(t) == t \in {"sp", "nl"}

RECURSIVE TrimStart(_)
TrimStart(s) ==
    IF s = <<>> THEN s
    ELSE IF IsSpace(Head(s)) THEN TrimStart(Tail(s)) ELSE s

RECURSIVE TrimEnd(_)
TrimEnd(s) ==
    IF s = <<>> THEN s
    ELSE IF IsSpace(s[Len(s)]) THEN TrimEnd(SubSeq(s, 1, Len(s) - 1)) ELSE s

\* String.prototype.trim
Trim(s) == TrimEnd(TrimStart(s))

\* String.prototype.includes, for a one-token needle
Includes(s, t) == \E i \in 1..Len(s) : s[i] = t

\* String.prototype.startsWith, for a one-token prefix
StartsWith(s, t) == Len(s) > 0 /\ s[1] = t

\* s.split('\n'): always at least one piece
RECURSIVE Split(_)
Split(s) ==
    IF ~Includes(s, "nl") THEN <<s>>
    ELSE LET i == CHOOSE k \in 1..Len(s) :
                      s[k] = "nl" /\ \A j \in 1..(k - 1) : s[j] # "nl"
         IN  <<SubSeq(s, 1, i - 1)>> \o Split(SubSeq(s, i + 1, Len(s)))

\* pieces.join('\n')
RECURSIVE Join(_)
Join(ls) ==
    IF ls = <<>> THEN <<>>
    ELSE IF Len(ls) = 1 THEN ls[1]
    ELSE ls[1] \o <<"nl">> \o Join(Tail(ls))

\* s.replace(a, b) with a string pattern: the first occurrence only
RECURSIVE ReplaceFirst(_, _, _)
ReplaceFirst(s, a, b) ==
    IF s = <<>> THEN s
    ELSE IF Head(s) = a THEN <<b>> \o Tail(s)
    ELSE <<Head(s)>> \o ReplaceFirst(Tail(s), a, b)

\* s.replace(new RegExp(a, 'g'), b): every occurrence
RECURSIVE ReplaceAll(_, _, _)
ReplaceAll(s, a, b) ==
    IF s = <<>> THEN s
    ELSE <<(IF Head(s) = a THEN b ELSE Head(s))>> \o ReplaceAll(Tail(s), a, b)

\* Mutant of NotIncludeLine: the line is not trimmed before the test.
NotIncludeLineNoTrim(line) == ~StartsWith(line, "#include")

\* output.split('\n').filter(line => !line.trim().startsWith('#include')).join('\n')
NotIncludeLine(line) == ~StartsWith(Trim(line), "#include")

StripIncludes(output) == Join(SelectSeq(Split(output), NotIncludeLine))

(***************************************************************************)
(* Documents of the model.  In a source text "bad" is a syntax error,      *)
(* "warn" a construct gcc warns about, "exit1" a non-zero exit status, and *)
(* "hi", "qsp", "qnl", "qinc" are what the program prints ("hi", a blank,  *)
(* a line feed, the text #include).                                        *)
(***************************************************************************)
DocPlain == <<"x">>
DocHi    == <<"x", "nl", "printf", "hi">>
DocBlank == <<"printf", "qsp">>
DocBad   == <<"scanf", "bad">>
DocWarn  == <<"printf", "hi", "nl", "scanf", "warn">>
DocExit  == <<"printf", "hi", "exit1">>

Docs == {DocPlain, DocHi, DocBlank, DocBad, DocWarn, DocExit}

\* The texts an edit of the model can leave in an editor.
DocsOf(e) == IF e = "A" THEN Docs ELSE {DocPlain, DocHi}

\* Selections as token offsets [from, to) into the document.
Selections == {<<0, 0>>, <<1, 2>>, <<2, 4>>}

\* The selections a selection event of the model can leave in an editor.
SelectionsOf(e) == IF e = "A" THEN Selections ELSE {<<0, 0>>}

\* document.getText(selection): the range is clamped to the document
GetText(doc, sel) ==
    LET to == IF sel[2] < Len(doc) THEN sel[2] ELSE Len(doc)
    IN  IF sel[1] >= to THEN <<>> ELSE SubSeq(doc, sel[1] + 1, to)

\* editor.document.uri.fsPath
FsPath(editor) == IF editor = "A" THEN "a.c" ELSE "b.c"

(***************************************************************************)
(* The command line of exec (gcc "<src>" -o "<out>" && "<out>"): what gcc  *)
(* and the produced binary do with a source text.                          *)
(***************************************************************************)
\* Mutant of TempFilePath: both pipelines write the same source file.
TempFilePathShared(kind) == "quickc.c"

TempFilePath(kind)   == IF kind = "doc" THEN "quickc.c" ELSE "quickc_block.c"
OutputFilePath(kind) == IF kind = "doc" THEN "quickc.out" ELSE "quickc_block.out"

GccFails(code) == Includes(code, "bad")

GccStderr(code, src) ==
    IF GccFails(code) THEN <<src, "error">>
    ELSE IF Includes(code, "warn") THEN <<src, "warning">>
    ELSE <<>>

IsPrinted(t) == t \in {"hi", "qsp", "qnl", "qinc"}

Printed(t) ==
    CASE t = "qsp"  -> "sp"
      [] t = "qnl"  -> "nl"
      [] t = "qinc" -> "#include"
      [] OTHER      -> t

BinaryStdout(bin) ==
    LET p == SelectSeq(bin, IsPrinted)
    IN  [i \in 1..Len(p) |-> Printed(p[i])]

BinaryFails(bin) == Includes(bin, "exit1")

\* error.message of the error exec hands to its callback
ErrorMessage == <<"Command failed">>

(***************************************************************************)
(* State                                                                   *)
(***************************************************************************)
VARIABLES
    activated,              \* activate has run and deactivate has not
    docs,                   \* editor -> text of editor.document
    selection,              \* editor -> editor.selection
    active,                 \* vscode.window.activeTextEditor
    timeout,                \* the module's timer handle (0 = undefined)
    timers,                 \* the timers that are scheduled and have not fired
    currentDecorationType,  \* handle (0 = undefined)
    errorDecorationType,    \* handle (0 = undefined)
    decorations,            \* the decorations the editors show
    runs,                   \* id -> exec call whose callback has not run
    files,                  \* path -> content, for the files on disk
    message,                \* the last notification shown to the user
    clock,                  \* events delivered so far; source of fresh ids
    lastFire,               \* history: the last debounce callback
    lastCallback,           \* history: the last exec callback
    latestDone              \* history: newest document run that has completed

vars == <<activated, docs, selection, active, timeout, timers,
          currentDecorationType, errorDecorationType, decorations, runs,
          files, message, clock, lastFire, lastCallback, latestDone>>

\* id: the timer; target: the targetLine it found; count: callbacks so far
NoFire == [id |-> 0, target |-> -1, count |-> 0]

NoCallback == [id |-> 0, kind |-> "none", error |-> FALSE, isError |-> FALSE,
               stdout |-> <<>>, outcome |-> "none"]

Init ==
    /\ activated = TRUE
    /\ docs = [e \in Editors |-> IF e = "A" THEN DocHi ELSE DocPlain]
    /\ selection = [e \in Editors |-> <<0, 0>>]
    /\ active = "A"
    /\ timeout = 0
    /\ timers = {}
    /\ currentDecorationType = 0
    /\ errorDecorationType = 0
    /\ decorations = {}
    /\ runs = [i \in {} |-> 0]
    /\ files = [p \in {} |-> <<>>]
    /\ message = [kind |-> "none", text |-> <<>>]
    /\ clock = 0
    /\ lastFire = NoFire
    /\ lastCallback = NoCallback
    /\ latestDone = 0

(***************************************************************************)
(* Files                                                                   *)
(***************************************************************************)
ExistsSync(fs, p) == p \in DOMAIN fs

\* Mutant of WriteFileSync: a file that is already there is left as it is.
WriteFileSyncKeep(fs, p, data) ==
    [q \in DOMAIN fs \cup {p} |-> IF q \in DOMAIN fs THEN fs[q] ELSE data]

WriteFileSync(fs, p, data) ==
    [q \in DOMAIN fs \cup {p} |-> IF q = p THEN data ELSE fs[q]]

\* fs.unlinkSync on an existing path (on a missing one it throws ENOENT)
Unlink(fs, p) == [q \in DOMAIN fs \ {p} |-> fs[q]]

(***************************************************************************)
(* Debounce                                                                *)
(***************************************************************************)
\* Mutant of ClearTimeout: the pending timer is not cancelled.
ClearTimeoutNothing(pending, handle) == pending

\* clearTimeout(handle): a no-op for undefined and for a timer that fired
ClearTimeout(pending, handle) == {t \in pending : t.id # handle}

\* Mutant of UpdateOutput: the handle of the new timer is not kept.
UpdateOutputHandleLost(editor) ==
    /\ timers' = {t \in timers : t.id # timeout}
                     \cup {[id |-> clock + 1, editor |-> editor]}
    /\ timeout' = timeout

\* Mutant of UpdateOutput: every editor has a timer of its own.
UpdateOutputPerEditor(editor) ==
    /\ timers' = {t \in timers : t.editor # editor}
                     \cup {[id |-> clock + 1, editor |-> editor]}
    /\ timeout' = clock + 1

\* updateOutput (lines 40-42, 59): cancel, then schedule the callback
UpdateOutput(editor) ==
    /\ timers' = ClearTimeout(timers, timeout)
                     \cup {[id |-> clock + 1, editor |-> editor]}
    /\ timeout' = clock + 1

\* Mutant of TargetLine: the last matching line instead of the first.
TargetLineLast(documentText) ==
    LET lines == Split(documentText)
        hits  == {i \in 1..Len(lines) :
                     Includes(lines[i], "printf") \/ Includes(lines[i], "scanf")}
    IN  IF hits = {} THEN -1
        ELSE (CHOOSE i \in hits : \A j \in hits : j <= i) - 1

\* Mutant of TargetLine: a document without a match gets line 0.
TargetLineDefaultZero(documentText) ==
    LET lines == Split(documentText)
        hits  == {i \in 1..Len(lines) :
                     Includes(lines[i], "printf") \/ Includes(lines[i], "scanf")}
    IN  IF hits = {} THEN 0
        ELSE (CHOOSE i \in hits : \A j \in hits : i <= j) - 1

\* lines 44-52: the first line that includes printf or scanf, or -1
TargetLine(documentText) ==
    LET lines == Split(documentText)
        hits  == {i \in 1..Len(lines) :
                     Includes(lines[i], "printf") \/ Includes(lines[i], "scanf")}
    IN  IF hits = {} THEN -1
        ELSE (CHOOSE i \in hits : \A j \in hits : i <= j) - 1

(***************************************************************************)
(* Decorations.  The decoration state is the record                        *)
(*   [cur, err: the two module handles, shown: the decorations on screen]. *)
(* A decoration is [type, editor, line, col, text, color].                 *)
(***************************************************************************)
\* Mutant of Dispose: the decorations of a disposed type stay on screen.
DisposeNothing(shown, type) == shown

\* type.dispose(): what was set with the type leaves every editor
Dispose(shown, type) == {d \in shown : d.type # type}

\* Mutant of ClearOutput: the handles are reset, the types not disposed.
ClearOutputNoDispose(st, editor) == [st EXCEPT !.cur = 0, !.err = 0]

\* clearOutput (lines 62-73)
ClearOutput(st, editor) ==
    LET a == IF st.cur # 0
             THEN [st EXCEPT !.shown = Dispose(st.shown, st.cur), !.cur = 0]
             ELSE st
    IN  IF a.err # 0
        THEN [a EXCEPT !.shown = Dispose(a.shown, a.err), !.err = 0]
        ELSE a

\* lines 155-158
FormattedOutput(cleanedOutput, executionTime, isError) ==
    (IF isError THEN <<"Error: ">> ELSE <<>>)
        \o cleanedOutput \o <<" (Execution Time: ", executionTime, "s)">>

\* Mutant of Color: the error flag is ignored.
ColorIgnoresError(isError, setting) ==
    IF setting # "" THEN setting ELSE DefaultInlineColor

\* line 155
Color(isError, setting) ==
    IF isError THEN "red"
    ELSE IF setting # "" THEN setting ELSE DefaultInlineColor

\* editor.document.lineAt(line) throws unless 0 <= line < lineCount
LineAtThrows(documentText, line) ==
    line < 0 \/ line >= Len(Split(documentText))

\* Mutant of IsBlank: the early return is missing.
IsBlankNever(output) == FALSE

\* line 146: !output.trim()
IsBlank(output) == Trim(output) = <<>>

\* displayInlineOutput (lines 145-175).  setting is the value read from the
\* configuration and newType the decoration type that
\* createTextEditorDecorationType returns; the result has threw = TRUE when
\* lineAt throws.
DisplayInlineOutput(st, output, editor, currentLine, executionTime, isError, setting, newType) ==
    IF IsBlank(output) THEN [st |-> st, threw |-> FALSE]
    ELSE
      LET cleared       == ClearOutput(st, editor)
          cleanedOutput == StripIncludes(output)
          color         == Color(isError, setting)
          formatted     == FormattedOutput(cleanedOutput, executionTime, isError)
      IN  IF LineAtThrows(docs[editor], currentLine)
          THEN [st |-> cleared, threw |-> TRUE]
          ELSE
            LET targetLineText == Split(docs[editor])[currentLine + 1]
                decoration == [type   |-> newType,
                               editor |-> editor,
                               line   |-> currentLine,
                               col    |-> Len(targetLineText),
                               text   |-> <<" // ">> \o formatted,
                               color  |-> color]
            IN  [st |-> [cleared EXCEPT !.cur = newType,
                                        !.shown = @ \cup {decoration}],
                 threw |-> FALSE]

DecorationState ==
    [cur |-> currentDecorationType, err |-> errorDecorationType,
     shown |-> decorations]

SetDecorationState(st) ==
    /\ currentDecorationType' = st.cur
    /\ errorDecorationType' = st.err
    /\ decorations' = st.shown

(***************************************************************************)
(* Starting a run                                                          *)
(***************************************************************************)
NewRun(kind, editor, code, line) ==
    [kind |-> kind, editor |-> editor, code |-> code, line |-> line,
     documentPath |-> FsPath(editor), phase |-> "gcc",
     error |-> FALSE, stdout |-> <<>>, stderr |-> <<>>]

AddRun(id, r) == [i \in DOMAIN runs \cup {id} |-> IF i = id THEN r ELSE runs[i]]

DropRun(id) == [i \in DOMAIN runs \ {id} |-> runs[i]]

\* Mutant of RunCCode: starting a run drops the runs in flight.
RunCCodeCancelsOthers(id, code, editor, currentLine) ==
    /\ files' = WriteFileSync(files, TempFilePath("doc"), code)
    /\ runs' = [i \in {id} |-> NewRun("doc", editor, code, currentLine)]

\* runCCode up to the exec call (lines 75-84)
RunCCode(id, code, editor, currentLine) ==
    /\ files' = WriteFileSync(files, TempFilePath("doc"), code)
    /\ runs' = AddRun(id, NewRun("doc", editor, code, currentLine))

(***************************************************************************)
(* Events of the host                                                      *)
(***************************************************************************)
CanDeliver == activated /\ clock < MaxEvents

\* onDidChangeTextDocument (lines 18-23)
ChangeTextDocument(e, text) ==
    /\ CanDeliver
    /\ text # docs[e]
    /\ docs' = [docs EXCEPT ![e] = text]
    /\ clock' = clock + 1
    /\ IF e = active
       THEN UpdateOutput(e)
       ELSE UNCHANGED <<timers, timeout>>
    /\ UNCHANGED <<activated, selection, active,
                   currentDecorationType, errorDecorationType, decorations,
                   runs, files, message, lastFire, lastCallback, latestDone>>

\* onDidChangeTextEditorSelection (lines 25-28)
ChangeTextEditorSelection(e, sel) ==
    /\ CanDeliver
    /\ selection' = [selection EXCEPT ![e] = sel]
    /\ clock' = clock + 1
    /\ UpdateOutput(e)
    /\ UNCHANGED <<activated, docs, active,
                   currentDecorationType, errorDecorationType, decorations,
                   runs, files, message, lastFire, lastCallback, latestDone>>

\* The user moves to another editor; the extension has no handler for it.
ChangeActiveTextEditor(e) ==
    /\ CanDeliver
    /\ e # active
    /\ active' = e
    /\ clock' = clock + 1
    /\ UNCHANGED <<activated, docs, selection, timeout, timers,
                   currentDecorationType, errorDecorationType, decorations,
                   runs, files, message, lastFire, lastCallback, latestDone>>

\* The callback of setTimeout (lines 42-59)
TimerFires(t) ==
    /\ t \in timers
    /\ timers' = timers \ {t}
    /\ LET editor       == t.editor
           documentText == docs[editor]
           targetLine   == TargetLine(documentText)
       IN  /\ lastFire' = [id |-> t.id, target |-> targetLine,
                           count |-> lastFire.count + 1]
           /\ IF targetLine # -1
              THEN /\ RunCCode(t.id, documentText, editor, targetLine)
                   /\ UNCHANGED <<currentDecorationType, errorDecorationType,
                                  decorations>>
              ELSE /\ SetDecorationState(ClearOutput(DecorationState, editor))
                   /\ UNCHANGED <<runs, files>>
    /\ UNCHANGED <<activated, docs, selection, active, timeout,
                   message, clock, lastCallback, latestDone>>

\* Mutant of NothingSelected: the selection is not trimmed.
NothingSelectedNoTrim(selectedText) == selectedText = <<>>

\* line 107: !selectedText.trim()
NothingSelected(selectedText) == Trim(selectedText) = <<>>

\* The command quickc.runBlock (lines 30-35) and runSelectedBlock up to the
\* exec call (lines 104-119)
RunSelectedBlock ==
    /\ CanDeliver
    /\ clock' = clock + 1
    /\ LET editor       == active
           selectedText == GetText(docs[editor], selection[editor])
       IN  IF NothingSelected(selectedText)
           THEN /\ message' = [kind |-> "error",
                               text |-> <<"No C code selected to execute.">>]
                /\ UNCHANGED <<runs, files>>
           ELSE /\ files' = WriteFileSync(files, TempFilePath("block"),
                                          selectedText)
                /\ runs' = AddRun(clock + 1,
                                  NewRun("block", editor, selectedText, -1))
                /\ UNCHANGED message
    /\ UNCHANGED <<activated, docs, selection, active, timeout,
                   timers, currentDecorationType, errorDecorationType,
                   decorations, lastFire, lastCallback, latestDone>>

(***************************************************************************)
(* The child process of exec                                               *)
(***************************************************************************)
\* gcc "<src>" -o "<out>"
Gcc(id) ==
    /\ id \in DOMAIN runs
    /\ runs[id].phase = "gcc"
    /\ LET r   == runs[id]
           src == TempFilePath(r.kind)
           out == OutputFilePath(r.kind)
       IN  IF ~ExistsSync(files, src)
           THEN /\ runs' = [runs EXCEPT ![id] =
                       [r EXCEPT !.phase = "done", !.error = TRUE,
                                 !.stderr = <<"gcc: ", src, "No such file">>]]
                /\ UNCHANGED files
           ELSE IF GccFails(files[src])
           THEN /\ runs' = [runs EXCEPT ![id] =
                       [r EXCEPT !.phase = "done", !.error = TRUE,
                                 !.stderr = GccStderr(files[src], src)]]
                /\ UNCHANGED files
           ELSE /\ runs' = [runs EXCEPT ![id] =
                       [r EXCEPT !.phase = "binary",
                                 !.stderr = GccStderr(files[src], src)]]
                /\ files' = WriteFileSync(files, out, files[src])
    /\ UNCHANGED <<activated, docs, selection, active, timeout,
                   timers, currentDecorationType, errorDecorationType,
                   decorations, message, clock, lastFire, lastCallback,
                   latestDone>>

\* && "<out>"
Binary(id) ==
    /\ id \in DOMAIN runs
    /\ runs[id].phase = "binary"
    /\ LET r   == runs[id]
           out == OutputFilePath(r.kind)
       IN  IF ~ExistsSync(files, out)
           THEN runs' = [runs EXCEPT ![id] =
                    [r EXCEPT !.phase = "done", !.error = TRUE,
                              !.stderr = @ \o <<"sh: ", out, "not found">>]]
           ELSE runs' = [runs EXCEPT ![id] =
                    [r EXCEPT !.phase = "done",
                              !.error = BinaryFails(files[out]),
                              !.stdout = BinaryStdout(files[out])]]
    /\ UNCHANGED <<activated, docs, selection, active, timeout,
                   timers, currentDecorationType, errorDecorationType,
                   decorations, files, message, clock, lastFire, lastCallback,
                   latestDone>>

(***************************************************************************)
(* The callbacks of exec                                                   *)
(***************************************************************************)
\* lines 97-100 and 138-141.  unlinkSync throws when the file is not there;
\* nothing catches it, so the rest of the callback is skipped.
Cleanup(fs, kind) ==
    LET tempFilePath   == TempFilePath(kind)
        outputFilePath == OutputFilePath(kind)
    IN  IF ~ExistsSync(fs, tempFilePath)
        THEN [files |-> fs, threw |-> TRUE]
        ELSE LET a == Unlink(fs, tempFilePath)
             IN  [files |-> IF ExistsSync(a, outputFilePath)
                            THEN Unlink(a, outputFilePath) ELSE a,
                  threw |-> FALSE]

\* Mutant of IsError: every completion counts as a failure.
IsErrorAlways(error, stderr) == TRUE

\* line 88 and line 122
IsError(error, stderr) == error \/ stderr # <<>>

\* formattedError.trim() || (error ? error.message : 'Unknown error')
ErrorText(formattedError, error) ==
    IF Trim(formattedError) # <<>> THEN Trim(formattedError)
    ELSE IF error THEN ErrorMessage ELSE <<"Unknown error">>

CallbackRecord(id, r, isError, outcome) ==
    [id |-> id, kind |-> r.kind, error |-> r.error, isError |-> isError,
     stdout |-> r.stdout, outcome |-> outcome]

\* The text runCCode hands to displayInlineOutput (lines 90-91, 94)
Output(r) ==
    IF IsError(r.error, r.stderr)
    THEN <<"sp">> \o ErrorText(ReplaceFirst(r.stderr, TempFilePath("doc"),
                                            r.documentPath), r.error)
    ELSE Trim(r.stdout)

\* The callback of exec in runCCode (lines 84-101).  executionTime and
\* setting are the elapsed time and the colour setting the callback reads.
RunCCodeCallback(id, executionTime, setting) ==
    /\ id \in DOMAIN runs
    /\ runs[id].kind = "doc"
    /\ runs[id].phase = "done"
    /\ LET r        == runs[id]
           isError  == IsError(r.error, r.stderr)
           cleared  == ClearOutput(DecorationState, r.editor)
           output   == Output(r)
           shown    == DisplayInlineOutput(cleared, output, r.editor, r.line,
                                           executionTime, isError, setting, id)
           cleanup  == Cleanup(files, "doc")
           outcome  == IF shown.threw THEN "lineAt threw"
                       ELSE IF cleanup.threw THEN "unlinkSync threw"
                       ELSE "returned"
       IN  /\ SetDecorationState(shown.st)
           /\ files' = IF shown.threw THEN files ELSE cleanup.files
           /\ lastCallback' = CallbackRecord(id, r, isError, outcome)
    /\ runs' = DropRun(id)
    /\ latestDone' = IF id > latestDone THEN id ELSE latestDone
    /\ UNCHANGED <<activated, docs, selection, active, timeout,
                   timers, message, clock, lastFire>>

\* The callback of exec in runSelectedBlock (lines 119-142)
RunSelectedBlockCallback(id) ==
    /\ id \in DOMAIN runs
    /\ runs[id].kind = "block"
    /\ runs[id].phase = "done"
    /\ LET r        == runs[id]
           isError  == IsError(r.error, r.stderr)
           documentPath == FsPath(r.editor)
           formattedError ==
               ReplaceAll(r.stderr, TempFilePath("block"), documentPath)
           cleanedOutput == StripIncludes(r.stdout)
           cleanup  == Cleanup(files, "block")
       IN  /\ IF isError
              THEN /\ SetDecorationState(ClearOutput(DecorationState, r.editor))
                   /\ message' = [kind |-> "error",
                                  text |-> ErrorText(formattedError, r.error)]
              ELSE /\ UNCHANGED <<currentDecorationType, errorDecorationType,
                                  decorations>>
                   /\ message' = [kind |-> "info", text |-> Trim(cleanedOutput)]
           /\ files' = cleanup.files
           /\ lastCallback' =
                  CallbackRecord(id, r, isError,
                                 IF cleanup.threw THEN "unlinkSync threw"
                                 ELSE "returned")
    /\ runs' = DropRun(id)
    /\ UNCHANGED <<activated, docs, selection, active, timeout,
                   timers, clock, lastFire, latestDone>>

\* deactivate (lines 177-180); the host then disposes context.subscriptions
Deactivate ==
    /\ CanDeliver
    /\ activated' = FALSE
    /\ clock' = clock + 1
    /\ decorations' =
           Dispose(Dispose(decorations, currentDecorationType),
                   errorDecorationType)
    /\ UNCHANGED <<docs, selection, active, timeout, timers,
                   currentDecorationType, errorDecorationType, runs, files,
                   message, lastFire, lastCallback, latestDone>>

Next ==
    \/ \E e \in Editors : \E text \in DocsOf(e) : ChangeTextDocument(e, text)
    \/ \E e \in Editors : \E sel \in SelectionsOf(e) :
           ChangeTextEditorSelection(e, sel)
    \/ \E e \in Editors : ChangeActiveTextEditor(e)
    \/ \E t \in timers : TimerFires(t)
    \/ RunSelectedBlock
    \/ \E id \in DOMAIN runs : Gcc(id)
    \/ \E id \in DOMAIN runs : Binary(id)
    \/ \E id \in DOMAIN runs, executionTime \in ExecTimes :
           \E setting \in ColorSettings :
               RunCCodeCallback(id, executionTime, setting)
    \/ \E id \in DOMAIN runs : RunSelectedBlockCallback(id)
    \/ Deactivate

Spec == Init /\ [][Next]_vars

(***************************************************************************)
(* Steps, told apart by what they change                                   *)
(***************************************************************************)
\* A call of updateOutput: the only steps that add a timer.
UpdateOutputStep == timers' \ timers # {}

\* A debounce callback.
FireStep == lastFire'.id # lastFire.id

\* The timer a debounce callback belongs to.
FiredTimer == CHOOSE t \in timers : t.id = lastFire'.id

\* An exec callback, of the run CompletedRun.
CallbackStep == lastCallback'.id # lastCallback.id

CompletedRun == runs[lastCallback'.id]

\* The block command: the only event that leaves the activation, the
\* documents, the active editor and the timers alone.
BlockCommandStep ==
    /\ clock' # clock
    /\ activated' = activated
    /\ docs' = docs
    /\ active' = active
    /\ timers' = timers

HasTrigger(text) == Includes(text, "printf") \/ Includes(text, "scanf")

TempFiles(kind) == {TempFilePath(kind), OutputFilePath(kind)}

(***************************************************************************)
(* C1.  At most one debounce timer is pending in every reachable state,    *)
(* and it is the one the handle names: every call of updateOutput, also    *)
(* while a process is in flight, cancels the pending timer and schedules   *)
(* exactly one new timer.                                                  *)
(***************************************************************************)
C1_AtMostOneTimer ==
    /\ Cardinality(timers) <= 1
    /\ \A t \in timers : t.id = timeout

\* A second event has rescheduled while the run of the first is in flight.
C1_Witness ==
    /\ Cardinality(timers) = 1
    /\ timeout = 2
    /\ DOMAIN runs # {}

(***************************************************************************)
(* C2.  In a sequence of events, each arriving before the timer of the     *)
(* previous one has fired, exactly one debounce callback fires: after      *)
(* every event exactly the timer of that event is pending, the callback    *)
(* that fires is the one of the last event, no timer is pending after it,  *)
(* and the run it starts is given the text the document has then.          *)
(***************************************************************************)
C2_OneFirePerBurst ==
    [][/\ UpdateOutputStep =>
            /\ Cardinality(timers') = 1
            /\ \A t \in timers' : t.id = clock'
       /\ FireStep =>
            /\ lastFire'.id = timeout
            /\ lastFire'.id > lastFire.id
            /\ timers' = {}
            /\ lastFire'.target = -1 <=> ~HasTrigger(docs[FiredTimer.editor])
            /\ lastFire'.target # -1 =>
                 /\ lastFire'.id \in DOMAIN runs'
                 /\ runs'[lastFire'.id].code = docs[FiredTimer.editor]
                 /\ files'[TempFilePath("doc")] = docs[FiredTimer.editor]]_vars

\* Two events, the second an edit, and a single callback, for the second.
C2_Witness ==
    /\ clock = 2
    /\ lastFire.count = 1
    /\ lastFire.id = 2
    /\ 2 \in DOMAIN runs
    /\ runs[2].code = docs[runs[2].editor]
    /\ runs[2].code # DocHi

(***************************************************************************)
(* C3.  At most one decoration is visible per editor, and a visible        *)
(* decoration is of the current decoration type: no decoration of an       *)
(* earlier type is left on screen when a new one is set.                   *)
(***************************************************************************)
C3_AtMostOneDecoration ==
    /\ \A e \in Editors : Cardinality({d \in decorations : d.editor = e}) <= 1
    /\ \A d \in decorations : d.type = currentDecorationType

\* The second of two runs has set its decoration after the first completed.
C3_Witness ==
    /\ lastFire.count = 2
    /\ DOMAIN runs = {}
    /\ latestDone = 2
    /\ \E d \in decorations : d.type = 2

(***************************************************************************)
(* C4.  After the completion callback of a run, neither the temp source    *)
(* file nor the temp binary of the run's kind exists on disk.              *)
(***************************************************************************)
C4_TempFilesRemoved ==
    [][CallbackStep =>
           TempFiles(CompletedRun.kind) \cap DOMAIN files' = {}]_vars

(***************************************************************************)
(* C5.  When the debounce callback runs on a document in which no line     *)
(* contains printf or scanf, no file is written, no process is started and *)
(* no annotation is visible afterwards.                                    *)
(***************************************************************************)
C5_NoTriggerNoCompile ==
    [][(FireStep /\ ~HasTrigger(docs[FiredTimer.editor])) =>
           /\ files' = files
           /\ runs' = runs
           /\ decorations' = {}
           /\ currentDecorationType' = 0]_vars

\* The first run has shown its output; the second callback found no match.
C5_Witness ==
    /\ activated
    /\ lastFire.id = 2
    /\ lastFire.target = -1
    /\ latestDone = 1
    /\ lastCallback.outcome = "returned"
    /\ ~lastCallback.isError
    /\ Trim(lastCallback.stdout) # <<>>
    /\ decorations = {}
    /\ DOMAIN files = {}

(***************************************************************************)
(* C6.  A failure to delete a temp file in a completion callback is not    *)
(* propagated: no callback ends with the exception of unlinkSync.          *)
(***************************************************************************)
C6_UnlinkFailureNotPropagated == lastCallback.outcome # "unlinkSync threw"

(***************************************************************************)
(* C7.  A completed whole-document run is a failure exactly when its       *)
(* stderr is non-empty or its process error is non-null.  The annotation   *)
(* of a failure is red and starts with "Error: "; the annotation of a      *)
(* non-failure has the configured colour, or the default one, and no such  *)
(* prefix.  A failure whose target line is still in the document is        *)
(* always annotated.                                                       *)
(***************************************************************************)
C7_FailureShownRed ==
    [][(CallbackStep /\ CompletedRun.kind = "doc") =>
           LET r      == CompletedRun
               failed == r.error \/ r.stderr # <<>>
               new    == {d \in decorations' : d.type = lastCallback'.id}
           IN  /\ lastCallback'.isError <=> failed
               /\ \A d \in new :
                    IF failed
                    THEN /\ d.color = "red"
                         /\ SubSeq(d.text, 1, 2) = <<" // ", "Error: ">>
                    ELSE /\ d.color \in
                               {DefaultInlineColor} \cup (ColorSettings \ {""})
                         /\ ~Includes(d.text, "Error: ")
               /\ (failed /\ ~LineAtThrows(docs[r.editor], r.line)) => new # {}
      ]_vars

\* A run that only wrote a warning to stderr (exit code zero) is shown red.
C7_Witness ==
    /\ lastCallback.kind = "doc"
    /\ lastCallback.isError
    /\ ~lastCallback.error
    /\ \E d \in decorations :
          /\ d.type = lastCallback.id
          /\ d.color = "red"
          /\ Includes(d.text, "warning")

(***************************************************************************)
(* C8.  The block command with an empty or whitespace-only selection shows *)
(* the error "No C code selected to execute.", writes no file, starts no   *)
(* process, and leaves the annotation and the pending timer as they are.   *)
(***************************************************************************)
C8_NoSelection ==
    [][(BlockCommandStep
          /\ Trim(GetText(docs[active], selection[active])) = <<>>) =>
           /\ message' = [kind |-> "error",
                          text |-> <<"No C code selected to execute.">>]
           /\ files' = files
           /\ runs' = runs
           /\ UNCHANGED <<decorations, currentDecorationType,
                          errorDecorationType, timers, timeout>>]_vars

\* The command has been run on a selection that holds only a line feed.
C8_Witness ==
    /\ message = [kind |-> "error",
                  text |-> <<"No C code selected to execute.">>]
    /\ GetText(docs[active], selection[active]) # <<>>
    /\ Trim(GetText(docs[active], selection[active])) = <<>>
    /\ DOMAIN files = {}
    /\ DOMAIN runs = {}

(***************************************************************************)
(* C9.  After a whole-document run that did not fail and whose stdout is   *)
(* empty or whitespace only, no annotation is visible.                     *)
(***************************************************************************)
C9_BlankOutputNoAnnotation ==
    [][(/\ CallbackStep
        /\ CompletedRun.kind = "doc"
        /\ ~(CompletedRun.error \/ CompletedRun.stderr # <<>>)
        /\ Trim(CompletedRun.stdout) = <<>>) =>
           /\ decorations' = {}
           /\ currentDecorationType' = 0]_vars

\* The second run printed a blank; the first one had completed before it.
C9_Witness ==
    /\ lastCallback.kind = "doc"
    /\ lastCallback.id = 2
    /\ ~lastCallback.isError
    /\ lastCallback.stdout = <<"sp">>
    /\ lastFire.count = 2
    /\ DOMAIN runs = {}
    /\ decorations = {}

(***************************************************************************)
(* C10.  A run in flight is not cancelled by a new schedule or by a new    *)
(* run: a run leaves the set of runs in flight only through its own        *)
(* completion callback.  (The witness is a stale run that has overwritten  *)
(* the annotation of a fresher one.)                                       *)
(***************************************************************************)
C10_RunsNotCancelled ==
    [][/\ \A id \in DOMAIN runs \ DOMAIN runs' :
             CallbackStep /\ lastCallback'.id = id
       /\ UpdateOutputStep => runs' = runs]_vars

\* The annotation on screen is the one of run 1; run 2 completed before it.
C10_Witness ==
    /\ latestDone = 2
    /\ lastCallback.id = 1
    /\ DOMAIN runs = {}
    /\ currentDecorationType = 1
    /\ \E d \in decorations : d.type = 1

(***************************************************************************)
(* C11.  The two pipelines keep to their own temp files: the files         *)
(* quickc.c and quickc.out change only in steps of a whole-document run,   *)
(* the files quickc_block.c and quickc_block.out only in steps of a block  *)
(* run, and what gcc compiles and the shell runs for a run are the files   *)
(* of that run's kind.                                                     *)
(***************************************************************************)
FilesOfKind(kind) ==
    IF kind = "doc" THEN {"quickc.c", "quickc.out"}
    ELSE {"quickc_block.c", "quickc_block.out"}

SameFiles(paths) ==
    \A p \in paths :
        /\ p \in DOMAIN files' <=> p \in DOMAIN files
        /\ (p \in DOMAIN files /\ p \in DOMAIN files') => files'[p] = files[p]

\* A step of the child process of run id.
ProcessStep(id) ==
    /\ id \in DOMAIN runs
    /\ id \in DOMAIN runs'
    /\ runs'[id] # runs[id]

\* The step belongs to the pipeline of the given kind.
StepOfKind(kind) ==
    \/ kind = "doc" /\ FireStep
    \/ kind = "block" /\ BlockCommandStep
    \/ CallbackStep /\ CompletedRun.kind = kind
    \/ \E id \in DOMAIN runs : ProcessStep(id) /\ runs[id].kind = kind

C11_DisjointTempFiles ==
    [][/\ \A kind \in {"doc", "block"} :
             ~SameFiles(FilesOfKind(kind)) => StepOfKind(kind)
       /\ \A id \in DOMAIN runs :
             LET src == IF runs[id].kind = "doc"
                        THEN "quickc.c" ELSE "quickc_block.c"
                 out == IF runs[id].kind = "doc"
                        THEN "quickc.out" ELSE "quickc_block.out"
             IN  /\ (ProcessStep(id) /\ runs'[id].phase = "binary") =>
                       /\ src \in DOMAIN files
                       /\ files'[out] = files[src]
                 /\ (ProcessStep(id) /\ runs[id].phase = "binary"
                       /\ out \in DOMAIN files) =>
                       runs'[id].stdout = BinaryStdout(files[out])]_vars

\* A whole-document run and a block run are in flight, each with its files.
C11_Witness ==
    /\ \E i, j \in DOMAIN runs :
          /\ runs[i].kind = "doc"
          /\ runs[j].kind = "block"
          /\ runs[i].phase = "binary"
          /\ runs[j].phase = "binary"
    /\ DOMAIN files =
          {"quickc.c", "quickc.out", "quickc_block.c", "quickc_block.out"}
    /\ files["quickc.c"] # files["quickc_block.c"]

(***************************************************************************)
(* SpecOutput: the two exec callbacks on a run that has ended without      *)
(* failure, for every stdout of at most MaxStdout tokens over the alphabet *)
(* StdoutTokens.                                                           *)
(***************************************************************************)
StdoutTokens == {"hi", "sp", "nl", "#include"}

Stdouts == UNION {[1..n -> StdoutTokens] : n \in 0..MaxStdout}

\* A run of the given kind on editor A (text DocHi, target line 1, selection
\* "printf hi") whose process has ended with the given stdout.
EndedRun(kind, stdout) ==
    [NewRun(kind, "A", IF kind = "doc" THEN DocHi ELSE <<"printf", "hi">>,
            IF kind = "doc" THEN 1 ELSE -1)
        EXCEPT !.phase = "done", !.stdout = stdout]

InitOutput ==
    /\ activated = TRUE
    /\ docs = [e \in Editors |-> IF e = "A" THEN DocHi ELSE DocPlain]
    /\ active = "A"
    /\ timers = {}
    /\ currentDecorationType = 0
    /\ errorDecorationType = 0
    /\ decorations = {}
    /\ message = [kind |-> "none", text |-> <<>>]
    /\ clock = 1
    /\ lastCallback = NoCallback
    /\ latestDone = 0
    /\ \E kind \in {"doc", "block"}, stdout \in Stdouts :
          /\ runs = [i \in {1} |-> EndedRun(kind, stdout)]
          /\ files = [p \in TempFiles(kind) |-> runs[1].code]
          /\ selection = [e \in Editors |->
                            IF e = "A" /\ kind = "block"
                            THEN <<2, 4>> ELSE <<0, 0>>]
          /\ timeout = IF kind = "doc" THEN 1 ELSE 0
          /\ lastFire = IF kind = "doc"
                        THEN [id |-> 1, target |-> 1, count |-> 1]
                        ELSE NoFire

NextOutput ==
    \/ \E id \in DOMAIN runs, executionTime \in ExecTimes :
           \E setting \in ColorSettings :
               RunCCodeCallback(id, executionTime, setting)
    \/ \E id \in DOMAIN runs : RunSelectedBlockCallback(id)

SpecOutput == InitOutput /\ [][NextOutput]_vars

(***************************************************************************)
(* C12.  For every run that ends without failure, in both pipelines, the   *)
(* text shown has no line whose trimmed form starts with #include, and     *)
(* the other lines of the trimmed stdout are kept in order.  Amended: in   *)
(* the block pipeline they are kept up to the whitespace at the start and  *)
(* the end of what is left, which is trimmed after the include lines are   *)
(* removed; in the inline pipeline they are kept as they are.              *)
(***************************************************************************)
\* The line holds only whitespace before its first #include.
IsIncludeLine(line) ==
    \E i \in 1..Len(line) :
        line[i] = "#include" /\ \A j \in 1..(i - 1) : IsSpace(line[j])

OtherLine(line) == ~IsIncludeLine(line)

\* The lines of the trimmed stdout that are no include lines, joined.
OtherLines(stdout) == Join(SelectSeq(Split(Trim(stdout)), OtherLine))

HasIncludeLine(text) ==
    \E i \in 1..Len(Split(text)) : IsIncludeLine(Split(text)[i])

\* The texts the last callback has shown: the annotation between " // " and
\* the execution time, or the information message.
ShownTexts ==
    IF lastCallback.kind = "doc"
    THEN {SubSeq(d.text, 2, Len(d.text) - 3) :
             d \in {x \in decorations : x.type = lastCallback.id}}
    ELSE IF lastCallback.kind = "block" /\ message.kind = "info"
    THEN {message.text}
    ELSE {}

\* The claim as it stands: the other lines are kept as they are.
C12_OtherLinesKept ==
    \A text \in ShownTexts :
        /\ ~HasIncludeLine(text)
        /\ text = OtherLines(lastCallback.stdout)

C12_IncludeLinesDropped ==
    \A text \in ShownTexts :
        /\ ~HasIncludeLine(text)
        /\ Trim(text) = Trim(OtherLines(lastCallback.stdout))
        /\ lastCallback.kind = "doc" => text = OtherLines(lastCallback.stdout)

\* The block pipeline has shown "hi" for a stdout with an include line, a
\* blank line and the line "hi".
C12_Witness ==
    /\ lastCallback.kind = "block"
    /\ lastCallback.stdout = <<"#include", "nl", "nl", "hi">>
    /\ ShownTexts = {<<"hi">>}

(***************************************************************************)
(* SpecRepeat: the whole-document pipeline run again and again on one      *)
(* document that is not edited.  The document of editor A is any text of   *)
(* Docs; the only events are selection events of A, and a debounce         *)
(* callback runs only once the run before it has completed.                *)
(***************************************************************************)
InitRepeat ==
    /\ activated = TRUE
    /\ docs \in {[e \in Editors |-> IF e = "A" THEN text ELSE DocPlain] :
                    text \in Docs}
    /\ selection = [e \in Editors |-> <<0, 0>>]
    /\ active = "A"
    /\ timeout = 0
    /\ timers = {}
    /\ currentDecorationType = 0
    /\ errorDecorationType = 0
    /\ decorations = {}
    /\ runs = [i \in {} |-> 0]
    /\ files = [p \in {} |-> <<>>]
    /\ message = [kind |-> "none", text |-> <<>>]
    /\ clock = 0
    /\ lastFire = NoFire
    /\ lastCallback = NoCallback
    /\ latestDone = 0

NextRepeat ==
    \/ \E sel \in SelectionsOf("A") : ChangeTextEditorSelection("A", sel)
    \/ \E t \in timers : DOMAIN runs = {} /\ TimerFires(t)
    \/ \E id \in DOMAIN runs : Gcc(id)
    \/ \E id \in DOMAIN runs : Binary(id)
    \/ \E id \in DOMAIN runs, executionTime \in ExecTimes :
           \E setting \in ColorSettings :
               RunCCodeCallback(id, executionTime, setting)

SpecRepeat == InitRepeat /\ [][NextRepeat]_vars

(***************************************************************************)
(* C13.  When the whole-document pipeline runs a second time on the same   *)
(* text, after the first run has completed and with no edit in between,    *)
(* the annotation after the second run is the one after the first: the     *)
(* same number of annotations (none or one), on the same line, with the    *)
(* same text apart from the execution time.                                *)
(***************************************************************************)
\* The text of an annotation without the execution time.
WithoutTime(text) ==
    SubSeq(text, 1, Len(text) - 2) \o <<text[Len(text)]>>

\* What the editors show, apart from the execution times and the colours.
Shown(decos) ==
    {[editor |-> d.editor, line |-> d.line, col |-> d.col,
      text |-> WithoutTime(d.text)] : d \in decos}

C13_Idempotent ==
    [][(CallbackStep /\ lastCallback.kind = "doc") =>
           /\ Shown(decorations') = Shown(decorations)
           /\ Cardinality(decorations') = Cardinality(decorations)]_vars

\* Two runs have completed, and the annotation of the second is on screen
\* with an execution time of its own.
C13_Witness ==
    /\ lastFire.count = 2
    /\ lastCallback.id = 2
    /\ latestDone = 2
    /\ DOMAIN runs = {}
    /\ \E d \in decorations : d.type = 2 /\ Includes(d.text, "0.25")

(***************************************************************************)
(* SpecRecover: what follows a whole-document run that fails.  A run of    *)
(* the document of editor A is in flight; quickc.c is on disk, or has been *)
(* removed by the cleanup of a run that overlapped it.  Editor A is edited *)
(* and its selection moved, and a debounce callback runs once the run      *)
(* before it has completed.                                                *)
(***************************************************************************)
TriggerDocs == {text \in Docs : TargetLine(text) # -1}

InitRecover ==
    /\ activated = TRUE
    /\ docs \in {[e \in Editors |-> IF e = "A" THEN text ELSE DocPlain] :
                    text \in TriggerDocs}
    /\ selection = [e \in Editors |-> <<0, 0>>]
    /\ active = "A"
    /\ timeout = 1
    /\ timers = {}
    /\ currentDecorationType = 0
    /\ errorDecorationType = 0
    /\ decorations = {}
    /\ runs = [i \in {1} |->
                  NewRun("doc", "A", docs["A"], TargetLine(docs["A"]))]
    /\ files \in {[p \in {TempFilePath("doc")} |-> docs["A"]],
                  [p \in {} |-> <<>>]}
    /\ message = [kind |-> "none", text |-> <<>>]
    /\ clock = 1
    /\ lastFire = [id |-> 1, target |-> TargetLine(docs["A"]), count |-> 1]
    /\ lastCallback = NoCallback
    /\ latestDone = 0

NextRecover ==
    \/ \E text \in DocsOf("A") : ChangeTextDocument("A", text)
    \/ \E sel \in SelectionsOf("A") : ChangeTextEditorSelection("A", sel)
    \/ \E t \in timers : DOMAIN runs = {} /\ TimerFires(t)
    \/ \E id \in DOMAIN runs : Gcc(id)
    \/ \E id \in DOMAIN runs : Binary(id)
    \/ \E id \in DOMAIN runs, executionTime \in ExecTimes :
           \E setting \in ColorSettings :
               RunCCodeCallback(id, executionTime, setting)

SpecRecover == InitRecover /\ [][NextRecover]_vars

(***************************************************************************)
(* C14.  No error is fatal.  After a whole-document run has ended in a     *)
(* failure (gcc or the program failed, or the callback threw before or in  *)
(* the cleanup), an event still schedules a timer; a timer that fires on a *)
(* document with a trigger line starts a run of that document; and what    *)
(* that run hands to its callback is what gcc and the program give for its *)
(* own code, whatever the failed run left behind.                          *)
(***************************************************************************)
\* The last exec callback was the one of a failed whole-document run.
AfterFailure ==
    /\ lastCallback.kind = "doc"
    /\ \/ lastCallback.isError
       \/ lastCallback.outcome \in {"lineAt threw", "unlinkSync threw"}

\* What compiling and running code gives when nothing else is on disk.
ResultOf(code) ==
    IF GccFails(code)
    THEN [error |-> TRUE, isError |-> TRUE, stdout |-> <<>>]
    ELSE [error |-> BinaryFails(code),
          isError |-> BinaryFails(code) \/ Includes(code, "warn"),
          stdout |-> BinaryStdout(code)]

C14_NoErrorFatal ==
    [][AfterFailure =>
         /\ clock' # clock =>
                /\ timeout' = clock'
                /\ \E t \in timers' : t.id = timeout'
         /\ (FireStep /\ HasTrigger(docs[FiredTimer.editor])) =>
                /\ lastFire'.id \in DOMAIN runs'
                /\ runs'[lastFire'.id].phase = "gcc"
                /\ runs'[lastFire'.id].code = docs[FiredTimer.editor]
         /\ (CallbackStep /\ lastCallback'.kind = "doc") =>
                /\ lastCallback'.error = ResultOf(CompletedRun.code).error
                /\ lastCallback'.isError = ResultOf(CompletedRun.code).isError
                /\ lastCallback'.stdout = ResultOf(CompletedRun.code).stdout
                /\ lastCallback'.outcome # "unlinkSync threw"]_vars

\* The first run found no quickc.c: gcc failed and unlinkSync threw.  The
\* run started by the next event has printed "hi".
C14_Witness ==
    /\ lastCallback.id = 1
    /\ lastCallback.isError
    /\ lastCallback.outcome = "unlinkSync threw"
    /\ \E id \in DOMAIN runs :
          /\ id > 1
          /\ runs[id].phase = "done"
          /\ ~runs[id].error
          /\ runs[id].stdout = <<"hi">>

(***************************************************************************)
(* C15.  When the debounce callback runs, a whole-document run is started  *)
(* if and only if some line of the document contains printf or scanf, and  *)
(* the line handed to the run is the lowest such line (counted from 0):    *)
(* it contains one of the words and no line above it does.  The selection  *)
(* of the editor plays no part.                                            *)
(***************************************************************************)
IsTriggerLine(line) == Includes(line, "printf") \/ Includes(line, "scanf")

C15_FirstTriggerLine ==
    [][FireStep =>
         LET lines   == Split(docs[FiredTimer.editor])
             started == lastFire'.id \in DOMAIN runs' \ DOMAIN runs
         IN  /\ started <=> \E n \in 1..Len(lines) : IsTriggerLine(lines[n])
             /\ started =>
                  LET currentLine == runs'[lastFire'.id].line
                  IN  /\ currentLine \in 0..(Len(lines) - 1)
                      /\ IsTriggerLine(lines[currentLine + 1])
                      /\ \A m \in 1..currentLine : ~IsTriggerLine(lines[m])
                      /\ lastFire'.target = currentLine]_vars

\* The document has printf on line 0 and scanf on line 1, the selection
\* is on line 1, and the run in flight has line 0 as its target.
C15_Witness ==
    /\ docs["A"] = DocWarn
    /\ selection["A"] = <<2, 4>>
    /\ lastFire.id \in DOMAIN runs
    /\ runs[lastFire.id].editor = "A"
    /\ runs[lastFire.id].code = DocWarn
    /\ runs[lastFire.id].line = 0
    /\ lastFire.target = 0

C17_SharedTimer ==
    [][/\ \A t \in timers : \A u \in timers' \ timers :
              u.editor # t.editor =>
                  /\ timers' = {u}
                  /\ timeout' = u.id
                  /\ u.id > t.id
       /\ FireStep =>
              /\ timers = {FiredTimer}
              /\ FiredTimer.id = timeout
              /\ lastFire'.id \in DOMAIN runs' =>
                     runs'[lastFire'.id].editor = FiredTimer.editor
       /\ timeout' >= timeout]_vars

\* The selection of editor A was moved, then an event of editor B came
\* before the timer had fired.  One callback has run, the one of the second
\* event, and it found no trigger line: it read the document of B.
C17_Witness ==
    /\ selection["A"] # <<0, 0>>
    /\ docs["A"] = DocHi
    /\ docs["B"] = DocPlain
    /\ clock = 2
    /\ lastFire = [id |-> 2, target |-> -1, count |-> 1]
    /\ timers = {}
    /\ DOMAIN runs = {}
    /\ latestDone = 0

(***************************************************************************)
(* C18.  The line a whole-document run was given when it started is still  *)
(* a line of the document when its callback renders: lineAt does not       *)
(* throw, and the cleanup after it is reached.                             *)
(* This does not hold.  The document can lose lines while the process      *)
(* runs; lineAt(currentLine) then throws and lines 97-100 are skipped.     *)
(***************************************************************************)
C18_TargetLineStillValid ==
    lastCallback.kind = "doc" => lastCallback.outcome # "lineAt threw"

(***************************************************************************)
(* C19.  Once deactivate has run no annotation is on screen, a pending     *)
(* timer starts no run and a run in flight renders nothing.                *)
(* This does not hold.  deactivate disposes the decoration types and does  *)
(* nothing else: the timer is not cleared and the exec callback is not     *)
(* guarded, so a run can start and an annotation can appear afterwards.    *)
(***************************************************************************)
C19_NothingAfterDeactivate ==
    ~activated =>
        /\ decorations = {}
        /\ lastFire.id \notin DOMAIN runs

====
